---- MODULE Spec2Model ----
(***************************************************************************)
(* GC Toxic Shield: the continuous audio capture and recognition-dispatch  *)
(* pipeline of app/audio_engine.py (AudioEngine).                          *)
(*                                                                         *)
(* The capture thread (_listen_loop), the per-utterance dispatch workers   *)
(* (_process_audio), the meter thread (_vu_meter_loop) and the             *)
(* configuration calls (start, stop, set_input_device) are modelled as     *)
(* interleaved atomic steps.  The audio driver, the segmenter              *)
(* (Recognizer.listen) and the recognition backend are external: each of   *)
(* their calls is a nondeterministic choice among the outcomes the code    *)
(* distinguishes.                                                          *)
(*                                                                         *)
(* Spec is the whole engine.  SpecCapture is the capture thread under      *)
(* start, stop and device changes; SpecPipeline is the capture thread with *)
(* its dispatch workers on one input device; SpecShutdown is the capture   *)
(* and meter threads under start and stop, each thread scheduled fairly.   *)
(***************************************************************************)
EXTENDS Integers, Sequences, FiniteSets, TLC

\* ---- program constants (audio_engine.py:32-39) -------------------------
TARGET_SAMPLE_RATE == 16000
FALLBACK_SAMPLE_RATES == <<16000, 44100, 48000>>
RE_INIT_DELAY_SEC == 5
PHRASE_TIME_LIMIT == 5

\* ---- bounds of the model ------------------------------------------------
\* utterances the segmenter yields in one run
MaxUtter == 2
\* cap of the consecutive failure counter
MaxErrors == 13
\* longest utterance, in samples
MaxSamples == 6
\* level updates each thread performs in one run of the signal path
MaxUpdates == 1
\* longest buffer given to the signal functions, in samples
MaxBuf == 3
\* highest sanction level reached
MaxLevel == 3

\* utterance lengths the segmenter may return
UtterLens == {2, MaxSamples}
\* device indexes the configuration UI can select
DeviceIndexes == {0, 1}
Ids == 1..MaxUtter
\* dispatch worker threads whose transcription callback is running
Callers == {1, 2}

NoMic == [device_index |-> -1, sample_rate |-> 0]
NoAudio == [id |-> 0, n |-> 0, sample_rate |-> 0, true_rate |-> 0]
NoErr == [rate |-> 0, kind |-> "none"]
NoExc == [type |-> "none", origin |-> "none", marked |-> FALSE, cause |-> NoErr]
NoWorker == [st |-> "none", sample_rate |-> 0, true_rate |-> 0]
NoStream == [device |-> -1, samplerate |-> 0]
NoBuffer == [samples |-> <<>>, sample_rate |-> 0]
NoCall == [name |-> "none", param |-> 0]

VARIABLES
    running,              \* self._running
    online,               \* self._online
    device_changed,       \* self._device_changed
    input_device_index,   \* self.input_device_index
    recognizer,           \* self._recognizer (segmenter state)
    uiPc,                 \* position of the configuration thread in set_input_device
    capPc,                \* position of the capture thread in _listen_loop
    dev,                  \* device_index argument of the current open attempt
    probed,               \* candidates probed by the current open attempt, in order
    last_error,           \* last_error of _try_open_microphone
    mic,                  \* the open device handle (mic / source), NoMic when closed
    consecutive_errors,   \* local consecutive_errors of _listen_loop
    audio,                \* local audio of _listen_loop: the utterance in hand
    exc,                  \* the exception that ended the last pass of the outer try
    pause,                \* seconds slept by the most recent handler since the last good open
    capture_ok,           \* an utterance was captured since the last recovery pause ended
    calibrated,           \* calibrations completed on the handle opened last
    idle_timeout,         \* the listen call that just returned ended in an idle timeout
    nextId,               \* number of the next utterance the segmenter returns
    worker,               \* dispatch workers, by utterance number, with the rate of their buffer
    dispatched,           \* how many workers were started for each utterance
    delivered,            \* how many times on_transcription was called for each utterance
    vuPc,                 \* position of the meter thread in _vu_meter_loop
    vu_rate,              \* local vu_rate of _vu_meter_loop, 0 for None
    vu_stream,            \* the meter's open sd.InputStream, NoStream when closed
    vu_pause,             \* seconds the meter thread is sleeping for, 0 when it is not
    gain,                 \* self.gain, in tenths
    current_rms,          \* self._current_rms, in thousandths of full scale
    procPc,               \* position of a dispatch worker in the signal path of _process_audio
    tested,               \* the gain that worker read for "if self.gain != 1.0"
    multiplier,           \* the gain that worker read for "raw *= self.gain"
    w_old,                \* the level that worker loaded in _update_rms_from_audio
    w_rms,                \* the rms of that worker's utterance, in thousandths
    w_count,              \* level stores completed by the worker
    cbPc,                 \* position of the meter stream's thread in vu_callback
    m_old,                \* the level vu_callback loaded
    m_rms,                \* the rms of vu_callback's chunk, in thousandths
    m_count,              \* level stores completed by vu_callback
    fn,                   \* the signal function applied last, "none" before the first
    arg,                  \* its argument buffer
    out,                  \* its result
    prev_listen_thread,   \* a capture thread of an earlier start() that has not ended
    prev_vu_thread,       \* a meter thread of an earlier start() that has not ended
    is_penalty_active,    \* PenaltyManager._is_penalty_active
    current_level,        \* PenaltyManager._current_level
    level_index,          \* local level_index of execute_sanction, by calling thread
    sanctionPc,           \* position of each calling thread in on_transcription / execute_sanction
    overlays              \* sanctions on display (WarningBox or LockdownOverlay not yet dismissed)

vars == <<running, online, device_changed, input_device_index, recognizer, uiPc,
          capPc, dev, probed, last_error, mic, consecutive_errors, audio, exc,
          pause, capture_ok, calibrated, idle_timeout, nextId, worker, dispatched,
          delivered, vuPc, vu_rate, vu_stream, vu_pause, gain, current_rms,
          procPc, tested, multiplier, w_old, w_rms, w_count, cbPc, m_old, m_rms,
          m_count, fn, arg, out, prev_listen_thread, prev_vu_thread,
          is_penalty_active, current_level, level_index, sanctionPc, overlays>>

cfgVars == <<running, device_changed, input_device_index, uiPc>>
capVars == <<capPc, dev, probed, last_error, mic, consecutive_errors, audio, exc,
             pause, capture_ok, calibrated, idle_timeout, nextId>>
vuVars == <<vuPc, vu_rate, vu_stream, vu_pause>>
sigVars == <<gain, current_rms, procPc, tested, multiplier, w_old, w_rms, w_count,
             cbPc, m_old, m_rms, m_count>>
dspVars == <<fn, arg, out>>
prevVars == <<prev_listen_thread, prev_vu_thread>>
penVars == <<is_penalty_active, current_level, level_index, sanctionPc, overlays>>

Min(a, b) == IF a < b THEN a ELSE b
Abs(x) == IF x < 0 THEN -x ELSE x

\* sr.Recognizer() as configured by __init__ and _full_audio_reinit; thresholds
\* in tenths of a second.  adapted: energy statistics were accumulated by a
\* calibration or a listen since the recognizer was created.
NewRecognizer ==
    [dynamic_energy_threshold |-> TRUE, energy_threshold |-> 300,
     pause_threshold |-> 10, phrase_threshold |-> 1,
     non_speaking_duration |-> 5, adapted |-> FALSE]

\* mutant: the recovery leaves the new recognizer at the library's defaults
\* (pause 0.8 s, phrase 0.3 s)
FullAudioReinit_defaults ==
    [dynamic_energy_threshold |-> TRUE, energy_threshold |-> 300,
     pause_threshold |-> 8, phrase_threshold |-> 3,
     non_speaking_duration |-> 5, adapted |-> FALSE]

\* the recognizer that _full_audio_reinit creates and configures
FullAudioReinit ==
    [dynamic_energy_threshold |-> TRUE, energy_threshold |-> 300,
     pause_threshold |-> 10, phrase_threshold |-> 1,
     non_speaking_duration |-> 5, adapted |-> FALSE]

\* the recognizer after adjust_for_ambient_noise or listen touched its
\* energy threshold
Adapted(r) == [r EXCEPT !.adapted = TRUE]

\* _resample_audio_data(audio_data, target_rate).  np_ok = FALSE is the
\* except branch (numpy raised), which returns the original buffer.
Resample(audio_data, target_rate, np_ok) ==
    IF audio_data.sample_rate = target_rate THEN audio_data
    ELSE IF ~np_ok THEN audio_data
    ELSE LET new_length == (audio_data.n * target_rate) \div audio_data.sample_rate
         IN  IF new_length <= 0 THEN audio_data
             ELSE [audio_data EXCEPT !.n = new_length,
                                     !.sample_rate = target_rate,
                                     !.true_rate = target_rate]

\* the additional backoff of the OSError handler after n consecutive failures
ExtraWait(n) == IF n > 3 THEN Min(n * 2, 25) ELSE 0

InitEngine ==
    /\ running = FALSE
    /\ online = TRUE
    /\ device_changed = FALSE
    /\ input_device_index = 0
    /\ recognizer = NewRecognizer
    /\ uiPc = "idle"
    /\ capPc = "idle"
    /\ dev = -1
    /\ probed = <<>>
    /\ last_error = NoErr
    /\ mic = NoMic
    /\ consecutive_errors = 0
    /\ audio = NoAudio
    /\ exc = NoExc
    /\ pause = 0
    /\ capture_ok = FALSE
    /\ calibrated = 0
    /\ idle_timeout = FALSE
    /\ nextId = 1
    /\ worker = [i \in Ids |-> NoWorker]
    /\ dispatched = [i \in Ids |-> 0]
    /\ delivered = [i \in Ids |-> 0]
    /\ vuPc = "idle"
    /\ vu_rate = 0
    /\ vu_pause = 0
    /\ vu_stream = NoStream
    /\ gain = 15
    /\ current_rms = 0
    /\ procPc = "idle"
    /\ tested = 0
    /\ multiplier = 0
    /\ w_old = 0
    /\ w_rms = 0
    /\ w_count = 0
    /\ cbPc = "idle"
    /\ m_old = 0
    /\ m_rms = 0
    /\ m_count = 0
    /\ prev_listen_thread = "none"
    /\ prev_vu_thread = "none"
    /\ is_penalty_active = FALSE
    /\ current_level = 0
    /\ level_index = [t \in Callers |-> 0]
    /\ sanctionPc = [t \in Callers |-> "idle"]
    /\ overlays = 0

Init ==
    /\ InitEngine
    /\ fn = NoCall
    /\ arg = NoBuffer
    /\ out = NoBuffer

\* ---- public API ---------------------------------------------------------

\* start(): sets the flag and starts the capture thread and the meter
\* thread.  A new capture thread is modelled once the previous one has
\* ended; a meter thread that has not ended yet goes on as it is.
Start ==
    /\ ~running
    /\ capPc \in {"idle", "done"}
    /\ running' = TRUE
    /\ capPc' = "outer"
    /\ consecutive_errors' = 0
    /\ vuPc' = IF vuPc \in {"idle", "done"} THEN "import" ELSE vuPc
    /\ UNCHANGED <<online, device_changed, input_device_index, recognizer, uiPc,
                   dev, probed, last_error, mic, audio, exc, pause, capture_ok,
                   calibrated, idle_timeout, nextId, worker, dispatched, delivered,
                   vu_rate, vu_stream, vu_pause, sigVars, dspVars, penVars, prevVars>>

\* mutant: stop() cancels the workers in flight
Stop_cancels ==
    /\ running
    /\ running' = FALSE
    /\ worker' = [id \in Ids |->
                     IF worker[id].st \in {"recognize", "callback"}
                       THEN [st |-> "failed", sample_rate |-> 0, true_rate |-> 0]
                       ELSE worker[id]]
    /\ UNCHANGED <<online, device_changed, input_device_index, recognizer, uiPc,
                   capVars, dispatched, delivered, vuVars, sigVars, dspVars, penVars, prevVars>>

\* stop(): clears the flag
Stop ==
    /\ running
    /\ running' = FALSE
    /\ UNCHANGED <<online, device_changed, input_device_index, recognizer, uiPc,
                   capVars, worker, dispatched, delivered, vuVars, sigVars, dspVars, penVars, prevVars>>

\* set_input_device(index), first write: self.input_device_index = index
SetInputDevice(index) ==
    /\ uiPc = "idle"
    /\ input_device_index # index
    /\ input_device_index' = index
    /\ uiPc' = "flag"
    /\ UNCHANGED <<running, online, device_changed, recognizer, capVars,
                   worker, dispatched, delivered, vuVars, sigVars, dspVars, penVars, prevVars>>

\* mutant: the second write also closes the open handle
SetDeviceChanged_closes ==
    /\ uiPc = "flag"
    /\ device_changed' = TRUE
    /\ uiPc' = "idle"
    /\ mic' = NoMic
    /\ UNCHANGED <<running, online, input_device_index, recognizer, capPc, dev,
                   probed, last_error, consecutive_errors, audio, exc, pause,
                   capture_ok, calibrated, idle_timeout, nextId, worker, dispatched,
                   delivered, vuVars, sigVars, dspVars, penVars, prevVars>>

\* set_input_device(index), second write: self._device_changed = True
SetDeviceChanged ==
    /\ uiPc = "flag"
    /\ device_changed' = TRUE
    /\ uiPc' = "idle"
    /\ UNCHANGED <<running, online, input_device_index, recognizer, capVars,
                   worker, dispatched, delivered, vuVars, sigVars, dspVars, penVars, prevVars>>

\* ---- _try_open_microphone ----------------------------------------------

\* mutant: the candidate list is walked from its end
CandidateAt_reversed(k) == FALLBACK_SAMPLE_RATES[Len(FALLBACK_SAMPLE_RATES) - k]

\* the candidate the for loop tries after k candidates were probed
CandidateAt(k) == FALLBACK_SAMPLE_RATES[k + 1]

\* mutant: only the first error is remembered
RecordError_first(prev, e) == IF prev.kind = "none" THEN e ELSE prev

\* last_error = e, in both except branches
RecordError(prev, e) == e

\* the OSError raised when every candidate failed; it carries last_error
AllFailed(e) ==
    [type |-> "OSError", origin |-> "open", marked |-> FALSE, cause |-> e]

\* ---- the handlers of the outer try of _listen_loop -----------------------

\* except OSError: count, _full_audio_reinit(), sleep, extra wait when the
\* count exceeds 3.  Leaving the with block has closed the handle.
ExceptOSError(e) ==
    /\ consecutive_errors' = consecutive_errors + 1
    /\ recognizer' = FullAudioReinit
    /\ pause' = RE_INIT_DELAY_SEC + ExtraWait(consecutive_errors + 1)
    /\ exc' = e
    /\ mic' = NoMic
    /\ UNCHANGED <<capture_ok, calibrated, idle_timeout>>
    /\ capPc' = "sleep"

\* mutant: the exception is not caught and ends the capture thread
ExceptException_terminates(e) ==
    /\ consecutive_errors' = consecutive_errors + 1
    /\ recognizer' = recognizer
    /\ pause' = pause
    /\ exc' = e
    /\ mic' = NoMic
    /\ UNCHANGED <<capture_ok, calibrated, idle_timeout>>
    /\ capPc' = "done"

\* except Exception: count and sleep only
ExceptException(e) ==
    /\ consecutive_errors' = consecutive_errors + 1
    /\ recognizer' = recognizer
    /\ pause' = RE_INIT_DELAY_SEC
    /\ exc' = e
    /\ mic' = NoMic
    /\ UNCHANGED <<capture_ok, calibrated, idle_timeout>>
    /\ capPc' = "sleep"

\* ---- _listen_loop --------------------------------------------------------

\* mutant: a reopen reuses the device index of the previous open attempt
OuterCheck_staleindex ==
    /\ capPc = "outer"
    /\ IF running
         THEN /\ capPc' = "probe"
              /\ dev' = IF dev = -1 THEN input_device_index ELSE dev
         ELSE /\ capPc' = "done"
              /\ dev' = dev
    /\ probed' = <<>>
    /\ last_error' = NoErr
    /\ exc' = NoExc
    /\ UNCHANGED <<cfgVars, online, recognizer, mic, consecutive_errors, audio,
                   pause, capture_ok, calibrated, idle_timeout, nextId, worker,
                   dispatched, delivered, vuVars, sigVars, dspVars, penVars, prevVars>>

\* while self._running: the call of _try_open_microphone reads the device
\* index and starts probing; a cleared flag ends the thread
OuterCheck ==
    /\ capPc = "outer"
    /\ IF running
         THEN /\ capPc' = "probe"
              /\ dev' = input_device_index
         ELSE /\ capPc' = "done"
              /\ dev' = dev
    /\ probed' = <<>>
    /\ last_error' = NoErr
    /\ exc' = NoExc
    /\ UNCHANGED <<cfgVars, online, recognizer, mic, consecutive_errors, audio,
                   pause, capture_ok, calibrated, idle_timeout, nextId, worker, dispatched, delivered, vuVars, sigVars, dspVars, penVars, prevVars>>

\* sr.Microphone(...) and the trial "with mic as source: pass" succeed at
\* the next candidate: return mic, rate
ProbeOk ==
    /\ capPc = "probe"
    /\ LET rate == CandidateAt(Len(probed))
       IN  /\ probed' = Append(probed, [rate |-> rate, ok |-> TRUE])
           /\ mic' = [device_index |-> dev, sample_rate |-> rate]
    /\ last_error' = NoErr
    /\ calibrated' = 0
    /\ capPc' = "calibrate"
    /\ UNCHANGED <<cfgVars, online, recognizer, dev, consecutive_errors, audio,
                   exc, pause, capture_ok, idle_timeout, nextId, worker, dispatched,
                   delivered, vuVars, sigVars, dspVars, penVars, prevVars>>

\* the next candidate fails with an OSError or another Exception: remember
\* it and continue; after the last candidate raise OSError, which the outer
\* except OSError handles
ProbeFail(kind) ==
    /\ capPc = "probe"
    /\ LET rate == CandidateAt(Len(probed))
           e    == RecordError(last_error, [rate |-> rate, kind |-> kind])
       IN  /\ probed' = Append(probed, [rate |-> rate, ok |-> FALSE])
           /\ IF Len(probed) + 1 < Len(FALLBACK_SAMPLE_RATES)
                THEN /\ last_error' = e
                     /\ UNCHANGED <<capPc, recognizer, mic, consecutive_errors,
                                    exc, pause, capture_ok, calibrated, idle_timeout, vuVars, sigVars, dspVars, penVars, prevVars>>
                ELSE /\ consecutive_errors < MaxErrors
                     /\ last_error' = NoErr
                     /\ ExceptOSError(AllFailed(e))
    /\ UNCHANGED <<cfgVars, online, dev, audio, nextId, worker, dispatched,
                   delivered, vuVars, sigVars, dspVars, penVars, prevVars>>

\* mutant: a good open does not reset the counter
CalibrateOk_keepscount ==
    /\ capPc = "calibrate"
    /\ recognizer' = Adapted(recognizer)
    /\ pause' = 0
    /\ device_changed' = FALSE
    /\ calibrated' = calibrated + 1
    /\ capPc' = "inner"
    /\ UNCHANGED <<running, input_device_index, uiPc, online, dev, probed,
                   last_error, mic, consecutive_errors, audio, exc, capture_ok,
                   idle_timeout, nextId, worker, dispatched, delivered, vuVars, sigVars, dspVars, penVars, prevVars>>

\* with mic as source: adjust_for_ambient_noise succeeds; the counter is
\* reset and the device-changed flag cleared before the inner loop
\* (self._actual_sample_rate, which nothing reads, is the rate of mic)
CalibrateOk ==
    /\ capPc = "calibrate"
    /\ recognizer' = Adapted(recognizer)
    /\ consecutive_errors' = 0
    /\ pause' = 0
    /\ device_changed' = FALSE
    /\ calibrated' = calibrated + 1
    /\ capPc' = "inner"
    /\ UNCHANGED <<running, input_device_index, uiPc, online, dev, probed,
                   last_error, mic, audio, exc, capture_ok, idle_timeout, nextId,
                   worker, dispatched, delivered, vuVars, sigVars, dspVars, penVars, prevVars>>

\* entering the source or calibrating raises
CalibrateFail(type) ==
    /\ capPc = "calibrate"
    /\ consecutive_errors < MaxErrors
    /\ LET e == [type |-> type, origin |-> "calibrate", marked |-> FALSE,
                 cause |-> NoErr]
       IN  IF type = "OSError" THEN ExceptOSError(e) ELSE ExceptException(e)
    /\ UNCHANGED <<cfgVars, online, dev, probed, last_error, audio, nextId,
                   worker, dispatched, delivered, vuVars, sigVars, dspVars, penVars, prevVars>>

\* mutant: the inner loop tests only the device-changed flag
InnerCheck_ignoresstop ==
    /\ capPc = "inner"
    /\ IF ~device_changed
         THEN /\ capPc' = "listen"
              /\ mic' = mic
         ELSE /\ capPc' = "outer"
              /\ mic' = NoMic
    /\ idle_timeout' = FALSE
    /\ UNCHANGED <<cfgVars, online, recognizer, dev, probed, last_error,
                   consecutive_errors, audio, exc, pause, capture_ok, calibrated,
                   nextId, worker, dispatched, delivered, vuVars, sigVars, dspVars, penVars, prevVars>>

\* while self._running and not self._device_changed: enter listen, or leave
\* the with block (closing the handle) and return to the outer while; the
\* "if self._device_changed: continue" that follows leads there either way
InnerCheck ==
    /\ capPc = "inner"
    /\ IF running /\ ~device_changed
         THEN /\ capPc' = "listen"
              /\ mic' = mic
         ELSE /\ capPc' = "outer"
              /\ mic' = NoMic
    /\ idle_timeout' = FALSE
    /\ UNCHANGED <<cfgVars, online, recognizer, dev, probed, last_error,
                   consecutive_errors, audio, exc, pause, capture_ok, calibrated,
                   nextId, worker, dispatched, delivered, vuVars, sigVars, dspVars, penVars, prevVars>>

\* self._recognizer.listen(...) returns an utterance captured at the
\* negotiated rate
ListenUtterance(n) ==
    /\ capPc = "listen"
    /\ nextId <= MaxUtter
    /\ audio' = [id |-> nextId, n |-> n, sample_rate |-> mic.sample_rate,
                 true_rate |-> mic.sample_rate]
    /\ nextId' = nextId + 1
    /\ recognizer' = Adapted(recognizer)
    /\ capture_ok' = TRUE
    /\ capPc' = "resample"
    /\ UNCHANGED <<cfgVars, online, dev, probed, last_error, mic,
                   consecutive_errors, exc, pause, calibrated, idle_timeout, worker,
                   dispatched, delivered, vuVars, sigVars, dspVars, penVars, prevVars>>

\* mutant: an idle timeout calibrates again before the next listen
ListenTimeout_recalibrates ==
    /\ capPc = "listen"
    /\ recognizer' = Adapted(recognizer)
    /\ idle_timeout' = TRUE
    /\ capPc' = "calibrate"
    /\ UNCHANGED <<cfgVars, online, dev, probed, last_error, mic,
                   consecutive_errors, audio, exc, pause, capture_ok, calibrated,
                   nextId, worker, dispatched, delivered, vuVars, sigVars, dspVars, penVars, prevVars>>

\* mutant: an idle timeout is counted as a failure
ListenTimeout_counts ==
    /\ capPc = "listen"
    /\ recognizer' = Adapted(recognizer)
    /\ idle_timeout' = TRUE
    /\ consecutive_errors' = consecutive_errors + 1
    /\ capPc' = "inner"
    /\ UNCHANGED <<cfgVars, online, dev, probed, last_error, mic, audio, exc,
                   pause, capture_ok, calibrated, nextId, worker, dispatched,
                   delivered, vuVars, sigVars, dspVars, penVars, prevVars>>

\* except sr.WaitTimeoutError: continue
ListenTimeout ==
    /\ capPc = "listen"
    /\ recognizer' = Adapted(recognizer)
    /\ idle_timeout' = TRUE
    /\ capPc' = "inner"
    /\ UNCHANGED <<cfgVars, online, dev, probed, last_error, mic,
                   consecutive_errors, audio, exc, pause, capture_ok, calibrated,
                   nextId, worker, dispatched, delivered, vuVars, sigVars, dspVars, penVars, prevVars>>

\* except OSError in the inner loop.  marked: the error text contains
\* "WinError 50" or "[Errno".  A marked error breaks out of the inner loop:
\* the with block closes the handle and control falls through to the outer
\* while.  Any other OSError is re-raised to the outer except OSError.
ListenOSError(marked) ==
    /\ capPc = "listen"
    /\ LET e == [type |-> "OSError", origin |-> "read", marked |-> marked,
                 cause |-> NoErr]
       IN  IF marked
             THEN /\ exc' = e
                  /\ mic' = NoMic
                  /\ capPc' = "outer"
                  /\ UNCHANGED <<recognizer, consecutive_errors, pause, capture_ok, calibrated, idle_timeout, vuVars, sigVars, dspVars, penVars, prevVars>>
             ELSE /\ consecutive_errors < MaxErrors
                  /\ ExceptOSError(e)
    /\ UNCHANGED <<cfgVars, online, dev, probed, last_error, audio, nextId,
                   worker, dispatched, delivered, vuVars, sigVars, dspVars, penVars, prevVars>>

\* listen raises anything else: the outer except Exception
ListenException ==
    /\ capPc = "listen"
    /\ consecutive_errors < MaxErrors
    /\ ExceptException([type |-> "Exception", origin |-> "read",
                        marked |-> FALSE, cause |-> NoErr])
    /\ UNCHANGED <<cfgVars, online, dev, probed, last_error, audio, nextId,
                   worker, dispatched, delivered, vuVars, sigVars, dspVars, penVars, prevVars>>

\* if needs_resample: audio = _resample_audio_data(audio, TARGET_SAMPLE_RATE)
ResampleStep(np_ok) ==
    /\ capPc = "resample"
    /\ IF mic.sample_rate # TARGET_SAMPLE_RATE
         THEN audio' = Resample(audio, TARGET_SAMPLE_RATE, np_ok)
         ELSE np_ok /\ audio' = audio
    /\ capPc' = "detach"
    /\ UNCHANGED <<cfgVars, online, recognizer, dev, probed, last_error, mic,
                   consecutive_errors, exc, pause, capture_ok, calibrated, idle_timeout, nextId, worker,
                   dispatched, delivered, vuVars, sigVars, dspVars, penVars, prevVars>>

\* the workers that have not ended
InFlight == {id \in Ids : worker[id].st \in {"recognize", "callback"}}

\* mutant: the capture thread joins the previous workers before it starts one
DetachDispatch_joins ==
    /\ capPc = "detach"
    /\ InFlight = {}
    /\ worker' = [worker EXCEPT ![audio.id] =
                     [st |-> "recognize", sample_rate |-> audio.sample_rate,
                      true_rate |-> audio.true_rate]]
    /\ dispatched' = [dispatched EXCEPT ![audio.id] = @ + 1]
    /\ audio' = NoAudio
    /\ capPc' = "inner"
    /\ UNCHANGED <<cfgVars, online, recognizer, dev, probed, last_error, mic,
                   consecutive_errors, exc, pause, capture_ok, calibrated, idle_timeout, nextId, delivered, vuVars, sigVars, dspVars, penVars, prevVars>>

\* the detach copy succeeds and threading.Thread(target=_process_audio,
\* args=(detached_audio,)).start() hands the copy to a new worker
DetachDispatch ==
    /\ capPc = "detach"
    /\ worker' = [worker EXCEPT ![audio.id] =
                     [st |-> "recognize", sample_rate |-> audio.sample_rate,
                      true_rate |-> audio.true_rate]]
    /\ dispatched' = [dispatched EXCEPT ![audio.id] = @ + 1]
    /\ audio' = NoAudio
    /\ capPc' = "inner"
    /\ UNCHANGED <<cfgVars, online, recognizer, dev, probed, last_error, mic,
                   consecutive_errors, exc, pause, capture_ok, calibrated, idle_timeout, nextId, delivered, vuVars, sigVars, dspVars, penVars, prevVars>>

\* the detach copy raises OSError: "Audio detach failed - skipping", continue
DetachFail ==
    /\ capPc = "detach"
    /\ audio' = NoAudio
    /\ capPc' = "inner"
    /\ UNCHANGED <<cfgVars, online, recognizer, dev, probed, last_error, mic,
                   consecutive_errors, exc, pause, capture_ok, calibrated, idle_timeout, nextId, worker,
                   dispatched, delivered, vuVars, sigVars, dspVars, penVars, prevVars>>

\* time.sleep(...) of a handler returns: back to the outer while
WakeUp ==
    /\ capPc = "sleep"
    /\ capPc' = "outer"
    /\ capture_ok' = FALSE
    /\ UNCHANGED <<cfgVars, online, recognizer, dev, probed, last_error, mic,
                   consecutive_errors, audio, exc, pause, calibrated, idle_timeout,
                   nextId, worker, dispatched, delivered, vuVars, sigVars, dspVars, penVars, prevVars>>

\* ---- _process_audio (one thread per utterance) ---------------------------

\* A worker starts in "recognize": it applies manual gain, auto-normalize and
\* the level update (each helper catches its own exceptions and returns a
\* buffer at the sample rate it was given) and then blocks in
\* recognize_google.  A call that never returns is a worker that stays in
\* "recognize".  A worker ends "done", or "failed" when it ended in one of
\* the except clauses.

\* a worker past the recognition call: its buffer is no longer in use
Ended(st) == [st |-> st, sample_rate |-> 0, true_rate |-> 0]

\* mutant: results are handed over in capture order, a worker waiting for
\* the earlier ones
RecognizeText_inorder(id, nonempty) ==
    /\ worker[id].st = "recognize"
    /\ \A i \in Ids : i < id => worker[i].st \notin {"recognize", "callback"}
    /\ online' = TRUE
    /\ worker' = [worker EXCEPT ![id] = Ended(IF nonempty THEN "callback" ELSE "done")]
    /\ delivered' = [delivered EXCEPT ![id] = IF nonempty THEN @ + 1 ELSE @]
    /\ UNCHANGED <<cfgVars, capVars, recognizer, dispatched, vuVars, sigVars, dspVars, penVars, prevVars>>

\* recognize_google returns: self._online = True; a non-empty text is passed
\* to self.on_transcription
RecognizeText(id, nonempty) ==
    /\ worker[id].st = "recognize"
    /\ online' = TRUE
    /\ worker' = [worker EXCEPT ![id] = Ended(IF nonempty THEN "callback" ELSE "done")]
    /\ delivered' = [delivered EXCEPT ![id] = IF nonempty THEN @ + 1 ELSE @]
    /\ UNCHANGED <<cfgVars, capVars, recognizer, dispatched, vuVars, sigVars, dspVars, penVars, prevVars>>

\* mutant: unrecognized speech is handed to the callback as an empty text
RecognizeUnknown_delivers(id) ==
    /\ worker[id].st = "recognize"
    /\ worker' = [worker EXCEPT ![id] = Ended("done")]
    /\ delivered' = [delivered EXCEPT ![id] = @ + 1]
    /\ UNCHANGED <<cfgVars, capVars, recognizer, online, dispatched, vuVars, sigVars, dspVars, penVars, prevVars>>

\* except sr.UnknownValueError: pass
RecognizeUnknown(id) ==
    /\ worker[id].st = "recognize"
    /\ worker' = [worker EXCEPT ![id] = Ended("failed")]
    /\ UNCHANGED <<cfgVars, capVars, recognizer, online, dispatched, delivered, vuVars, sigVars, dspVars, penVars, prevVars>>

\* mutant: a backend failure is counted by the capture loop
RecognizeRequestError_counted(id) ==
    /\ worker[id].st = "recognize"
    /\ online' = FALSE
    /\ worker' = [worker EXCEPT ![id] = Ended("failed")]
    /\ consecutive_errors' = consecutive_errors + 1
    /\ UNCHANGED <<cfgVars, capPc, dev, probed, last_error, mic, audio, exc,
                   pause, capture_ok, calibrated, idle_timeout, nextId, recognizer,
                   dispatched, delivered, vuVars, sigVars, dspVars, penVars, prevVars>>

\* except sr.RequestError: self._online = False
RecognizeRequestError(id) ==
    /\ worker[id].st = "recognize"
    /\ online' = FALSE
    /\ worker' = [worker EXCEPT ![id] = Ended("failed")]
    /\ UNCHANGED <<cfgVars, capVars, recognizer, dispatched, delivered, vuVars, sigVars, dspVars, penVars, prevVars>>

\* mutant: the exception escapes the worker and is counted by the capture loop
RecognizeOther_escapes(id) ==
    /\ worker[id].st = "recognize"
    /\ worker' = [worker EXCEPT ![id] = Ended("failed")]
    /\ consecutive_errors' = consecutive_errors + 1
    /\ UNCHANGED <<cfgVars, capPc, dev, probed, last_error, mic, audio, exc,
                   pause, capture_ok, calibrated, idle_timeout, nextId, recognizer, online, dispatched,
                   delivered, vuVars, sigVars, dspVars, penVars, prevVars>>

\* except Exception: logged
RecognizeOther(id) ==
    /\ worker[id].st = "recognize"
    /\ worker' = [worker EXCEPT ![id] = Ended("failed")]
    /\ UNCHANGED <<cfgVars, capVars, recognizer, online, dispatched, delivered, vuVars, sigVars, dspVars, penVars, prevVars>>

\* self.on_transcription(text) returns
CallbackReturns(id) ==
    /\ worker[id].st = "callback"
    /\ worker' = [worker EXCEPT ![id] = Ended("done")]
    /\ UNCHANGED <<cfgVars, capVars, recognizer, online, dispatched, delivered, vuVars, sigVars, dspVars, penVars, prevVars>>

\* self.on_transcription(text) raises: caught and logged inside the worker
CallbackRaises(id) ==
    /\ worker[id].st = "callback"
    /\ worker' = [worker EXCEPT ![id] = Ended("failed")]
    /\ UNCHANGED <<cfgVars, capVars, recognizer, online, dispatched, delivered, vuVars, sigVars, dspVars, penVars, prevVars>>

\* ---- _vu_meter_loop (the meter thread) -----------------------------------

\* the variables the meter thread does not write
notVuVars == <<cfgVars, capVars, online, recognizer, worker, dispatched, delivered,
               sigVars, dspVars, penVars, prevVars>>

\* import sounddevice; except ImportError: return
VuImport(ok) ==
    /\ vuPc = "import"
    /\ vuPc' = IF ok THEN "outer" ELSE "done"
    /\ UNCHANGED <<notVuVars, vu_rate, vu_stream, vu_pause>>

\* while self._running: go on to _find_working_vu_rate, or end the thread
VuOuterCheck ==
    /\ vuPc = "outer"
    /\ vuPc' = IF running THEN "probe" ELSE "done"
    /\ UNCHANGED <<notVuVars, vu_rate, vu_stream, vu_pause>>

\* vu_rate = self._find_working_vu_rate(sd): the first candidate the device
\* accepts, or None (0) when it refuses all; None sleeps the fixed delay and
\* continues
VuFindRate(rate) ==
    /\ vuPc = "probe"
    /\ vu_rate' = rate
    /\ IF rate = 0
         THEN /\ vuPc' = "sleep"
              /\ vu_pause' = RE_INIT_DELAY_SEC
         ELSE /\ vuPc' = "open"
              /\ vu_pause' = vu_pause
    /\ UNCHANGED <<notVuVars, vu_stream>>

\* with sd.InputStream(samplerate=vu_rate, device=self.input_device_index,
\* callback=vu_callback): the stream opens
VuOpenOk ==
    /\ vuPc = "open"
    /\ vu_stream' = [device |-> input_device_index, samplerate |-> vu_rate]
    /\ vuPc' = "stream"
    /\ UNCHANGED <<notVuVars, vu_rate, vu_pause>>

\* mutant: a meter failure is counted with the capture thread's failures
VuOpenFail_shared ==
    /\ vuPc = "open"
    /\ vuPc' = "sleep"
    /\ vu_pause' = RE_INIT_DELAY_SEC
    /\ consecutive_errors' = consecutive_errors + 1
    /\ UNCHANGED <<cfgVars, capPc, dev, probed, last_error, mic, audio, exc, pause,
                   capture_ok, calibrated, idle_timeout, nextId, online, recognizer,
                   worker, dispatched, delivered, sigVars, dspVars, penVars, prevVars, vu_rate,
                   vu_stream>>

\* opening the stream raises: except OSError / except Exception, both sleep
\* the fixed delay
VuOpenFail ==
    /\ vuPc = "open"
    /\ vuPc' = "sleep"
    /\ vu_pause' = RE_INIT_DELAY_SEC
    /\ UNCHANGED <<notVuVars, vu_rate, vu_stream>>

\* while self._running and not self._device_changed: time.sleep(0.1); when
\* the condition fails the with block closes the stream and control returns
\* to the outer while (through "continue" when the device changed)
VuStreamCheck ==
    /\ vuPc = "stream"
    /\ IF running /\ ~device_changed
         THEN UNCHANGED <<vuPc, vu_stream>>
         ELSE /\ vuPc' = "outer"
              /\ vu_stream' = NoStream
    /\ UNCHANGED <<notVuVars, vu_rate, vu_pause>>

\* mutant: a failure of the open stream sleeps twice the delay
VuStreamFail_longer ==
    /\ vuPc = "stream"
    /\ vu_stream' = NoStream
    /\ vuPc' = "sleep"
    /\ vu_pause' = 2 * RE_INIT_DELAY_SEC
    /\ UNCHANGED <<notVuVars, vu_rate>>

\* the with block raises while the stream is open: the stream is closed and
\* the handler sleeps the fixed delay
VuStreamFail ==
    /\ vuPc = "stream"
    /\ vu_stream' = NoStream
    /\ vuPc' = "sleep"
    /\ vu_pause' = RE_INIT_DELAY_SEC
    /\ UNCHANGED <<notVuVars, vu_rate>>

\* time.sleep(RE_INIT_DELAY_SEC) returns: back to the outer while
VuWake ==
    /\ vuPc = "sleep"
    /\ vuPc' = "outer"
    /\ vu_pause' = 0
    /\ UNCHANGED <<notVuVars, vu_rate, vu_stream>>

\* ---- start() while threads of the previous start() are alive --------------

\* stop() clears the flag and joins the capture thread for at most 3 s and
\* the meter thread for at most 2 s; a thread blocked longer than that (listen
\* waits up to LISTEN_TIMEOUT = 10 s, a handler sleeps 5 s or more) is still
\* alive when stop() returns.  start() then tests only the flag.  A thread of
\* the previous start() is followed by its position alone: "blocked" in the
\* call it was in, or "looping" once it has passed a loop test again; what it
\* captures is not followed.

\* start() after stop() returned while the previous capture thread is still
\* alive, in a listen call or in the sleep of a handler (the join timed out),
\* and the previous meter thread has ended or is in the sleep of a handler:
\* the flag is set and a new capture thread and a new meter thread are
\* started; self._listen_thread and self._vu_thread now name the new ones
Restart ==
    /\ ~running
    /\ capPc \in {"listen", "sleep"}
    /\ vuPc \in {"idle", "done", "sleep"}
    /\ prev_listen_thread = "none"
    /\ prev_vu_thread = "none"
    /\ running' = TRUE
    /\ prev_listen_thread' = "blocked"
    /\ capPc' = "outer"
    /\ consecutive_errors' = 0
    /\ mic' = NoMic
    /\ audio' = NoAudio
    /\ prev_vu_thread' = IF vuPc = "sleep" THEN "blocked" ELSE "none"
    /\ vuPc' = "import"
    /\ vu_stream' = NoStream
    /\ vu_pause' = 0
    /\ UNCHANGED <<online, device_changed, input_device_index, recognizer, uiPc,
                   dev, probed, last_error, exc, pause, capture_ok, calibrated,
                   idle_timeout, nextId, worker, dispatched, delivered, vu_rate,
                   sigVars, dspVars, penVars>>

\* the call the previous capture thread was blocked in returns and the
\* thread reaches "while self._running": it goes on when the flag is set
\* and ends when it is clear
PrevListenReturns ==
    /\ prev_listen_thread = "blocked"
    /\ prev_listen_thread' = IF running THEN "looping" ELSE "none"
    /\ UNCHANGED <<cfgVars, capVars, online, recognizer, worker, dispatched,
                   delivered, vuVars, sigVars, dspVars, penVars, prev_vu_thread>>

\* the previous capture thread enters its next blocking call
PrevListenBlocks ==
    /\ prev_listen_thread = "looping"
    /\ prev_listen_thread' = "blocked"
    /\ UNCHANGED <<cfgVars, capVars, online, recognizer, worker, dispatched,
                   delivered, vuVars, sigVars, dspVars, penVars, prev_vu_thread>>

\* the sleep the previous meter thread was in returns and the thread reaches
\* "while self._running"
PrevVuReturns ==
    /\ prev_vu_thread = "blocked"
    /\ prev_vu_thread' = IF running THEN "looping" ELSE "none"
    /\ UNCHANGED <<cfgVars, capVars, online, recognizer, worker, dispatched,
                   delivered, vuVars, sigVars, dspVars, penVars, prev_listen_thread>>

\* the previous meter thread enters its next sleep
PrevVuBlocks ==
    /\ prev_vu_thread = "looping"
    /\ prev_vu_thread' = "blocked"
    /\ UNCHANGED <<cfgVars, capVars, online, recognizer, worker, dispatched,
                   delivered, vuVars, sigVars, dspVars, penVars, prev_listen_thread>>

\* ---- the level signal and the gain setting -------------------------------

\* Gains are in tenths and levels in thousandths of full scale; a product
\* with a weight is rounded down to the next thousandth.

\* arguments the settings UI passes to set_gain, in tenths
GainInputs == {-10, 10, 150}
\* rms of an utterance or of a meter chunk, in thousandths
RmsInputs == {100, 1000}

\* the variables of the engine outside the signal path
notSigVars == <<cfgVars, capVars, online, recognizer, worker, dispatched, delivered,
                vuVars, dspVars, penVars, prevVars>>

\* set_gain(gain): self.gain = max(0.0, min(gain, 10.0))
SetGain(g) ==
    /\ gain' = IF g > 100 THEN 100 ELSE IF g < 0 THEN 0 ELSE g
    /\ gain' # gain
    /\ UNCHANGED <<notSigVars, current_rms, procPc, tested, multiplier, w_old,
                   w_rms, w_count, cbPc, m_old, m_rms, m_count>>

\* self._current_rms * 0.3 + rms * 0.7
WorkerLevel(old, rms) == (3 * old + 7 * rms) \div 10

\* self._current_rms * 0.5 + rms * 0.5
MeterLevel(old, rms) == (old + rms) \div 2

\* mutant: the level is scaled but not clipped
GetVuLevel_unclipped == current_rms * 5

\* get_vu_level(): min(1.0, self._current_rms * 5.0)
GetVuLevel == IF current_rms * 5 > 1000 THEN 1000 ELSE current_rms * 5

\* _process_audio: "if self.gain != 1.0" reads the gain; the workers of
\* successive utterances are taken one after the other
ProcTestGain ==
    /\ procPc = "idle"
    /\ w_count < MaxUpdates
    /\ tested' = gain
    /\ multiplier' = 0
    /\ procPc' = IF gain # 10 THEN "apply" ELSE "level"
    /\ UNCHANGED <<notSigVars, gain, current_rms, w_old, w_rms, w_count, cbPc,
                   m_old, m_rms, m_count>>

\* _apply_gain: "raw *= self.gain" reads the gain again
ProcApplyGain ==
    /\ procPc = "apply"
    /\ multiplier' = gain
    /\ procPc' = "level"
    /\ UNCHANGED <<notSigVars, gain, current_rms, tested, w_old, w_rms, w_count,
                   cbPc, m_old, m_rms, m_count>>

\* _update_rms_from_audio: rms is computed from the normalized utterance and
\* self._current_rms is loaded
ProcLoadLevel(rms) ==
    /\ procPc = "level"
    /\ w_rms' = rms
    /\ w_old' = current_rms
    /\ procPc' = "store"
    /\ UNCHANGED <<notSigVars, gain, current_rms, tested, multiplier, w_count,
                   cbPc, m_old, m_rms, m_count>>

\* _update_rms_from_audio: the new level is stored
ProcStoreLevel ==
    /\ procPc = "store"
    /\ current_rms' = WorkerLevel(w_old, w_rms)
    /\ w_count' = w_count + 1
    /\ w_old' = 0
    /\ tested' = 0
    /\ multiplier' = 0
    /\ procPc' = "idle"
    /\ UNCHANGED <<notSigVars, gain, w_rms, cbPc, m_old, m_rms, m_count>>

\* vu_callback is called with a chunk of rms r while the stream is open:
\* "if not self._running: return", then "if self.gain != 1.0" reads the gain
CbEnter(r) ==
    /\ cbPc = "idle"
    /\ vuPc = "stream"
    /\ running
    /\ m_count < MaxUpdates
    /\ m_rms' = r
    /\ cbPc' = IF gain # 10 THEN "mul" ELSE "load"
    /\ UNCHANGED <<notSigVars, gain, current_rms, procPc, tested, multiplier,
                   w_old, w_rms, w_count, m_old, m_count>>

\* vu_callback: chunk = chunk * self.gain; the rms of the product is the rms
\* of the chunk times the magnitude of the gain
CbMul ==
    /\ cbPc = "mul"
    /\ m_rms' = (m_rms * Abs(gain)) \div 10
    /\ cbPc' = "load"
    /\ UNCHANGED <<notSigVars, gain, current_rms, procPc, tested, multiplier,
                   w_old, w_rms, w_count, m_old, m_count>>

\* vu_callback: self._current_rms is loaded
CbLoadLevel ==
    /\ cbPc = "load"
    /\ m_old' = current_rms
    /\ cbPc' = "store"
    /\ UNCHANGED <<notSigVars, gain, current_rms, procPc, tested, multiplier,
                   w_old, w_rms, w_count, m_rms, m_count>>

\* vu_callback: the new level is stored
CbStoreLevel ==
    /\ cbPc = "store"
    /\ current_rms' = MeterLevel(m_old, m_rms)
    /\ m_count' = m_count + 1
    /\ m_old' = 0
    /\ cbPc' = "idle"
    /\ UNCHANGED <<notSigVars, gain, procPc, tested, multiplier, w_old, w_rms,
                   w_count, m_rms>>

\* ---- the signal functions --------------------------------------------------

\* A buffer is the sequence of its 16-bit samples and its sample rate.
\* Floating-point results are computed in integers: a quotient is truncated
\* where the code truncates (astype(np.int16)), and the mean square and the
\* rms are rounded down to a whole number of sample units.

\* sample values: full scale, near silence, silence, below target loudness
SampleVals == {-32768, -20, 0, 1000, 32767}
\* gains of the signal path, in tenths
DspGains == {0, 10, 15, 100}

RateSet == {FALLBACK_SAMPLE_RATES[k] : k \in 1..Len(FALLBACK_SAMPLE_RATES)}

\* the buffers the signal functions are given
Buffers ==
    {[samples |-> smp, sample_rate |-> r] :
        smp \in UNION {[1..n -> SampleVals] : n \in 1..MaxBuf}, r \in RateSet}

\* astype(np.int16) of a quotient: truncation toward zero
TruncDiv(a, b) == IF a >= 0 THEN a \div b ELSE -((-a) \div b)

\* np.clip(x, -32768, 32767)
Clip16(x) == IF x > 32767 THEN 32767 ELSE IF x < -32768 THEN -32768 ELSE x

\* np.interp(np.linspace(0, len(raw) - 1, num=new_length), np.arange(len(raw)),
\* raw), clipped and cast to int16
Interp(raw, new_length) ==
    [k \in 1..new_length |->
        IF new_length = 1 THEN raw[1]
        ELSE LET num == (k - 1) * (Len(raw) - 1)
                 den == new_length - 1
                 i   == num \div den
                 rem == num % den
             IN  IF rem = 0 THEN raw[i + 1]
                 ELSE Clip16(TruncDiv(raw[i + 1] * den + rem * (raw[i + 2] - raw[i + 1]),
                                      den))]

\* mutant: the target rate argument is ignored, the buffer is taken to
\* TARGET_SAMPLE_RATE
ResampleAudioData_fixedtarget(audio_data, target_rate, np_ok) ==
    IF audio_data.sample_rate = TARGET_SAMPLE_RATE THEN audio_data
    ELSE IF ~np_ok THEN audio_data
    ELSE LET new_length == (Len(audio_data.samples) * TARGET_SAMPLE_RATE)
                               \div audio_data.sample_rate
         IN  IF new_length <= 0 THEN audio_data
             ELSE [samples |-> Interp(audio_data.samples, new_length),
                   sample_rate |-> TARGET_SAMPLE_RATE]

\* _resample_audio_data(audio_data, target_rate) on the samples.  np_ok =
\* FALSE is the except branch, which returns the original buffer.
ResampleAudioData(audio_data, target_rate, np_ok) ==
    IF audio_data.sample_rate = target_rate THEN audio_data
    ELSE IF ~np_ok THEN audio_data
    ELSE LET new_length == (Len(audio_data.samples) * target_rate)
                               \div audio_data.sample_rate
         IN  IF new_length <= 0 THEN audio_data
             ELSE [samples |-> Interp(audio_data.samples, new_length),
                   sample_rate |-> target_rate]

\* mutant: the product wraps around in 16 bits instead of being clipped
ApplyGain_wraps(buf, g) ==
    [buf EXCEPT !.samples =
        [k \in 1..Len(buf.samples) |->
            ((TruncDiv(buf.samples[k] * g, 10) + 32768) % 65536) - 32768]]

\* _apply_gain(buf) with self.gain = g tenths: raw *= gain, clip, int16
ApplyGain(buf, g) ==
    [buf EXCEPT !.samples =
        [k \in 1..Len(buf.samples) |->
            Clip16(TruncDiv(buf.samples[k] * g, 10))]]

RECURSIVE SumSq(_, _)
\* the sum over the first k samples of sample^2 / len, rounded down per term
SumSq(smp, k) ==
    IF k = 0 THEN 0 ELSE SumSq(smp, k - 1) + (smp[k] * smp[k]) \div Len(smp)

\* np.mean(raw ** 2), in squared sample units
MeanSq(smp) == SumSq(smp, Len(smp))

RECURSIVE SqrtBetween(_, _, _)
\* the largest r in lo..hi with r * r <= x
SqrtBetween(x, lo, hi) ==
    IF lo = hi THEN lo
    ELSE LET mid == (lo + hi + 1) \div 2
         IN  IF mid * mid <= x THEN SqrtBetween(x, mid, hi)
             ELSE SqrtBetween(x, lo, mid - 1)

\* np.sqrt(np.mean(raw ** 2)), in sample units
Rms(smp) == SqrtBetween(MeanSq(smp), 0, 32768)

\* rms < MIN_RMS_THRESHOLD (0.001 of full scale: mean square below
\* 32768^2 / 10^6)
Silent(smp) == MeanSq(smp) < (32768 * 32768) \div 1000000 + 1

\* gain_db <= 0: the rms is at or above TARGET_RMS_DB (-20 dB, 0.1 of full
\* scale: mean square at least 32768^2 / 100)
Loud(smp) == MeanSq(smp) > (32768 * 32768) \div 100

\* one sample of the normalized buffer: raw * gain_linear, clipped to
\* [-1, 1], times 32767, cast to int16, where gain_linear is
\* min(0.1 / rms, 20.0), that is min(32768 / (10 * r), 20) for rms r in
\* sample units
NormalizeSample(x, r) ==
    IF 10 * r * 20 < 32768
      THEN IF x * 20 >= 32768 THEN 32767
           ELSE IF x * 20 <= -32768 THEN -32767
           ELSE TruncDiv(x * 20 * 32767, 32768)
      ELSE IF x >= 10 * r THEN 32767
           ELSE IF x <= -(10 * r) THEN -32767
           ELSE TruncDiv(x * 32767, 10 * r)

\* mutant: the silence check is missing
Normalize_nosilence(buf) ==
    IF Loud(buf.samples) THEN buf
    ELSE LET r == Rms(buf.samples)
         IN  [buf EXCEPT !.samples =
                 [k \in 1..Len(buf.samples) |->
                     NormalizeSample(buf.samples[k], r)]]

\* mutant: a buffer at or above the target is scaled down to the target
Normalize_scalesdown(buf) ==
    IF Silent(buf.samples) THEN buf
    ELSE LET r == Rms(buf.samples)
         IN  [buf EXCEPT !.samples =
                 [k \in 1..Len(buf.samples) |->
                     NormalizeSample(buf.samples[k], r)]]

\* _normalize_audio(audio)
Normalize(buf) ==
    IF Silent(buf.samples) THEN buf
    ELSE IF Loud(buf.samples) THEN buf
    ELSE LET r == Rms(buf.samples)
         IN  [buf EXCEPT !.samples =
                 [k \in 1..Len(buf.samples) |->
                     NormalizeSample(buf.samples[k], r)]]

\* the variables of the engine outside the signal functions
notDspVars == <<cfgVars, capVars, online, recognizer, worker, dispatched, delivered,
                vuVars, sigVars, prevVars, penVars>>

\* _resample_audio_data is called on a captured buffer
ResampleCall(target_rate, np_ok) ==
    /\ fn.name = "none"
    /\ fn' = [name |-> "resample", param |-> target_rate]
    /\ arg' = out
    /\ out' = ResampleAudioData(out, target_rate, np_ok)
    /\ UNCHANGED notDspVars

\* _process_audio on a captured or resampled buffer with self.gain = g:
\* manual gain unless the gain is 1.0, then auto-normalize
ProcessCall(g) ==
    /\ fn.name \in {"none", "resample"}
    /\ fn' = [name |-> "process", param |-> g]
    /\ arg' = out
    /\ out' = Normalize(IF g # 10 THEN ApplyGain(out, g) ELSE out)
    /\ UNCHANGED notDspVars

\* _normalize_audio is called on a buffer, also on its own output
NormalizeCall ==
    /\ fn.name \in {"none", "normalize"}
    /\ fn' = [name |-> "normalize", param |-> 0]
    /\ arg' = out
    /\ out' = Normalize(out)
    /\ UNCHANGED notDspVars

\* ---- the transcription callback and the penalty manager -------------------

\* the variables of the audio engine
engineVars == <<cfgVars, capVars, online, recognizer, worker, dispatched, delivered,
                vuVars, sigVars, dspVars, prevVars>>

\* on_transcription(text) on the thread of dispatch worker t, for a text the
\* detector finds toxic: "if penalty_mgr.is_penalty_active: return", else
\* detect, log and call execute_sanction
OnTranscription(t) ==
    /\ sanctionPc[t] = "idle"
    /\ current_level < MaxLevel
    /\ ~is_penalty_active
    /\ sanctionPc' = [sanctionPc EXCEPT ![t] = "check"]
    /\ UNCHANGED <<engineVars, is_penalty_active, current_level, level_index,
                   overlays>>

\* execute_sanction: "if self._is_penalty_active: return"
SanctionCheck(t) ==
    /\ sanctionPc[t] = "check"
    /\ sanctionPc' = [sanctionPc EXCEPT ![t] =
                          IF is_penalty_active THEN "idle" ELSE "count"]
    /\ UNCHANGED <<engineVars, is_penalty_active, current_level, level_index,
                   overlays>>

\* execute_sanction, with self._lock: level_index = self._current_level;
\* self._current_level += 1
SanctionCount(t) ==
    /\ sanctionPc[t] = "count"
    /\ level_index' = [level_index EXCEPT ![t] = current_level]
    /\ current_level' = current_level + 1
    /\ sanctionPc' = [sanctionPc EXCEPT ![t] = "mark"]
    /\ UNCHANGED <<engineVars, is_penalty_active, overlays>>

\* execute_sanction: self._is_penalty_active = True
SanctionMark(t) ==
    /\ sanctionPc[t] = "mark"
    /\ is_penalty_active' = TRUE
    /\ sanctionPc' = [sanctionPc EXCEPT ![t] = "dispatch"]
    /\ UNCHANGED <<engineVars, current_level, level_index, overlays>>

\* execute_sanction: _dispatch_warning or _dispatch_lockdown hands the
\* sanction to the main thread, which displays it
SanctionDispatch(t) ==
    /\ sanctionPc[t] = "dispatch"
    /\ overlays' = overlays + 1
    /\ level_index' = [level_index EXCEPT ![t] = 0]
    /\ sanctionPc' = [sanctionPc EXCEPT ![t] = "idle"]
    /\ UNCHANGED <<engineVars, is_penalty_active, current_level>>

\* execute_sanction: the dispatch raises; except Exception clears the flag
SanctionDispatchFails(t) ==
    /\ sanctionPc[t] = "dispatch"
    /\ is_penalty_active' = FALSE
    /\ level_index' = [level_index EXCEPT ![t] = 0]
    /\ sanctionPc' = [sanctionPc EXCEPT ![t] = "idle"]
    /\ UNCHANGED <<engineVars, current_level, overlays>>

\* _on_penalty_done: a displayed sanction is dismissed
OnPenaltyDone ==
    /\ overlays > 0
    /\ overlays' = overlays - 1
    /\ is_penalty_active' = FALSE
    /\ UNCHANGED <<engineVars, current_level, level_index, sanctionPc>>

\* ---- the system ----------------------------------------------------------

Capture ==
    \/ OuterCheck
    \/ ProbeOk
    \/ \E kind \in {"OSError", "Exception"} : ProbeFail(kind)
    \/ CalibrateOk
    \/ \E type \in {"OSError", "Exception"} : CalibrateFail(type)
    \/ InnerCheck
    \/ \E n \in UtterLens : ListenUtterance(n)
    \/ ListenTimeout
    \/ \E marked \in BOOLEAN : ListenOSError(marked)
    \/ ListenException
    \/ \E np_ok \in BOOLEAN : ResampleStep(np_ok)
    \/ DetachDispatch
    \/ DetachFail
    \/ WakeUp

Worker(id) ==
    \/ \E nonempty \in BOOLEAN : RecognizeText(id, nonempty)
    \/ RecognizeUnknown(id)
    \/ RecognizeRequestError(id)
    \/ RecognizeOther(id)
    \/ CallbackReturns(id)
    \/ CallbackRaises(id)

Configure ==
    \/ \E index \in DeviceIndexes : SetInputDevice(index)
    \/ SetDeviceChanged

\* the rates _find_working_vu_rate can return, 0 for None
VuRates == {0} \cup {FALLBACK_SAMPLE_RATES[k] : k \in 1..Len(FALLBACK_SAMPLE_RATES)}

Meter ==
    \/ \E ok \in BOOLEAN : VuImport(ok)
    \/ VuOuterCheck
    \/ \E rate \in VuRates : VuFindRate(rate)
    \/ VuOpenOk
    \/ VuOpenFail
    \/ VuStreamCheck
    \/ VuStreamFail
    \/ VuWake

\* the engine: configuration thread, capture thread, dispatch workers and
\* meter thread
Previous ==
    \/ PrevListenReturns
    \/ PrevListenBlocks
    \/ PrevVuReturns
    \/ PrevVuBlocks

Sanction(t) ==
    \/ OnTranscription(t)
    \/ SanctionCheck(t)
    \/ SanctionCount(t)
    \/ SanctionMark(t)
    \/ SanctionDispatch(t)
    \/ SanctionDispatchFails(t)

Next ==
    \/ Start
    \/ Stop
    \/ Restart
    \/ Configure
    \/ Capture
    \/ \E id \in Ids : Worker(id)
    \/ Meter
    \/ Previous
    \/ \E t \in Callers : Sanction(t)
    \/ OnPenaltyDone

Spec == Init /\ [][Next]_vars

\* the capture thread under start, stop and device changes; the workers it
\* starts stay in their recognition call (no capture step reads worker state)
NextCapture ==
    \/ Start
    \/ Stop
    \/ Configure
    \/ Capture

SpecCapture == Init /\ [][NextCapture]_vars

\* the capture thread and its dispatch workers on one input device
NextPipeline ==
    \/ Start
    \/ Stop
    \/ Capture
    \/ \E id \in Ids : Worker(id)

SpecPipeline == Init /\ [][NextPipeline]_vars

\* the capture thread and the meter thread under start and stop.  Both are
\* operating-system threads that keep being scheduled, and every call they
\* block in is bounded (listen by its timeout and phrase limit, the sleeps
\* by their duration), so each thread eventually takes its next step.
NextShutdown ==
    \/ Start
    \/ Stop
    \/ Capture
    \/ Meter

SpecShutdown ==
    Init /\ [][NextShutdown]_vars /\ WF_vars(Capture) /\ WF_vars(Meter)

\* the steps of the capture thread on a device that accepts the first
\* candidate rate and never fails
CaptureHealthy ==
    \/ OuterCheck
    \/ ProbeOk
    \/ CalibrateOk
    \/ InnerCheck
    \/ \E n \in UtterLens : ListenUtterance(n)
    \/ ListenTimeout
    \/ ResampleStep(TRUE)
    \/ DetachDispatch

\* the meter thread, with all its failures, beside a capture thread whose
\* device is healthy, under start, stop and device changes
NextMeter ==
    \/ Start
    \/ Stop
    \/ Configure
    \/ CaptureHealthy
    \/ Meter

SpecMeter == Init /\ [][NextMeter]_vars

\* start() and stop() in any order on a healthy device, the threads of the
\* previous start() included
NextRestart ==
    \/ Start
    \/ Stop
    \/ Restart
    \/ CaptureHealthy
    \/ Meter
    \/ Previous

SpecRestart == Init /\ [][NextRestart]_vars

\* the transcription callbacks of two dispatch workers and the dismissal of
\* displayed sanctions
NextSanction ==
    \/ \E t \in Callers : Sanction(t)
    \/ OnPenaltyDone

SpecSanction == Init /\ [][NextSanction]_vars

\* the signal functions applied to every buffer of up to MaxBuf samples
InitDsp ==
    /\ InitEngine
    /\ fn = NoCall
    /\ arg = NoBuffer
    /\ out \in Buffers

NextDsp ==
    \/ \E target_rate \in RateSet : \E np_ok \in BOOLEAN :
           ResampleCall(target_rate, np_ok)
    \/ \E g \in DspGains : ProcessCall(g)
    \/ NormalizeCall

SpecDsp == InitDsp /\ [][NextDsp]_vars

\* the engine after start(): the capture thread is in a listen call on
\* device 0 at the target rate and the meter stream is open
Listening ==
    /\ running = TRUE
    /\ capPc = "listen"
    /\ dev = 0
    /\ probed = <<[rate |-> TARGET_SAMPLE_RATE, ok |-> TRUE]>>
    /\ mic = [device_index |-> 0, sample_rate |-> TARGET_SAMPLE_RATE]
    /\ recognizer = Adapted(NewRecognizer)
    /\ calibrated = 1
    /\ vuPc = "stream"
    /\ vu_rate = TARGET_SAMPLE_RATE
    /\ vu_stream = [device |-> 0, samplerate |-> TARGET_SAMPLE_RATE]

\* the rest of the listening engine's state, the gain apart: nothing was
\* captured, measured or requested yet
ListeningRest ==
    /\ online = TRUE
    /\ device_changed = FALSE
    /\ input_device_index = 0
    /\ uiPc = "idle"
    /\ last_error = NoErr
    /\ consecutive_errors = 0
    /\ audio = NoAudio
    /\ exc = NoExc
    /\ pause = 0
    /\ capture_ok = FALSE
    /\ idle_timeout = FALSE
    /\ nextId = 1
    /\ worker = [i \in Ids |-> NoWorker]
    /\ dispatched = [i \in Ids |-> 0]
    /\ delivered = [i \in Ids |-> 0]
    /\ vu_pause = 0
    /\ current_rms = 0
    /\ procPc = "idle"
    /\ tested = 0
    /\ multiplier = 0
    /\ w_old = 0
    /\ w_rms = 0
    /\ w_count = 0
    /\ cbPc = "idle"
    /\ m_old = 0
    /\ m_rms = 0
    /\ m_count = 0
    /\ fn = NoCall
    /\ arg = NoBuffer
    /\ out = NoBuffer
    /\ prev_listen_thread = "none"
    /\ prev_vu_thread = "none"
    /\ is_penalty_active = FALSE
    /\ current_level = 0
    /\ level_index = [t \in Callers |-> 0]
    /\ sanctionPc = [t \in Callers |-> "idle"]
    /\ overlays = 0

InitSignal ==
    /\ Listening
    /\ ListeningRest
    /\ gain = 15

\* the signal path of the dispatch workers and of the meter callback while
\* the settings UI changes the gain
NextSignal ==
    \/ \E g \in GainInputs : SetGain(g)
    \/ ProcTestGain
    \/ ProcApplyGain
    \/ \E rms \in RmsInputs : ProcLoadLevel(rms)
    \/ ProcStoreLevel
    \/ \E r \in RmsInputs : CbEnter(r)
    \/ CbMul
    \/ CbLoadLevel
    \/ CbStoreLevel

SpecSignal == InitSignal /\ [][NextSignal]_vars

\* initial_gain arguments of the constructor, in tenths: the default, the
\* fallback of main.py and a stored AudioGain value below zero
InitialGains == {-5, 10, 15}

\* the listening engine after AudioEngine(initial_gain=g).start()
InitConstructed ==
    /\ Listening
    /\ ListeningRest
    /\ gain \in InitialGains

\* the signal path of an engine constructed with any of these gains
SpecConstructed == InitConstructed /\ [][NextSignal]_vars

\* ---- properties ----------------------------------------------------------

\* every candidate of the current open attempt was refused
AllRefused ==
    /\ Len(probed) = Len(FALLBACK_SAMPLE_RATES)
    /\ \A j \in 1..Len(probed) : ~probed[j].ok

\* C1: while a handle returned by _try_open_microphone is open, the
\* candidates that were probed are the first k of the list in list order,
\* each one before the k-th was refused, the k-th was accepted, and the
\* handle's rate is that k-th candidate: the earliest accepted rate, with no
\* later candidate probed.
C1_FirstAcceptedRate ==
    mic # NoMic =>
        LET k == Len(probed)
        IN  /\ k \in 1..Len(FALLBACK_SAMPLE_RATES)
            /\ \A j \in 1..k : probed[j].rate = FALLBACK_SAMPLE_RATES[j]
            /\ \A j \in 1..(k - 1) : ~probed[j].ok
            /\ probed[k].ok
            /\ mic.sample_rate = probed[k].rate

\* C1 witness: the device refused 16000 and accepted 44100; the handle is
\* open at 44100 and 48000 was not probed
C1_Witness ==
    /\ mic # NoMic
    /\ mic.sample_rate = 44100
    /\ probed = <<[rate |-> 16000, ok |-> FALSE], [rate |-> 44100, ok |-> TRUE]>>
    /\ capPc = "listen"

\* C2: when every candidate was refused, the attempt ended in an OSError
\* raised by the open that carries the error of the last candidate tried; no
\* handle exists and the capture thread is in its recovery pause or back at
\* the outer loop, never calibrating or listening.  Conversely an error of
\* the open only arises that way.
C2_AllFailedCarriesLast ==
    /\ AllRefused =>
          /\ exc.type = "OSError"
          /\ exc.origin = "open"
          /\ exc.cause.kind \in {"OSError", "Exception"}
          /\ exc.cause.rate = probed[Len(probed)].rate
          /\ mic = NoMic
          /\ capPc \in {"sleep", "outer"}
    /\ exc.origin = "open" => AllRefused

\* C2 witness: all three candidates were refused, the last with a non-OSError
\* exception, and the pause is over
C2_Witness ==
    /\ AllRefused
    /\ exc.cause = [rate |-> 48000, kind |-> "Exception"]
    /\ capPc = "outer"

\* C3: every buffer in a worker's recognition call is at the backend's rate,
\* and the rate field of every buffer is the rate of its data.
C3_BackendRate ==
    /\ \A id \in Ids :
          worker[id].st = "recognize" =>
              /\ worker[id].sample_rate = TARGET_SAMPLE_RATE
              /\ worker[id].sample_rate = worker[id].true_rate
    /\ audio.sample_rate = audio.true_rate

\* C4: every utterance the segmenter returned and the capture thread no
\* longer holds was handed to exactly one worker.
C4_ExactlyOneWorker ==
    \A id \in Ids :
        (id < nextId /\ audio.id # id) => dispatched[id] = 1

\* C5: whatever workers are in flight, the capture thread's next step is
\* enabled: it can test the loop condition, be handed the next utterance by
\* the segmenter, resample it and start a worker for it.
C5_CaptureNeverWaits ==
    /\ capPc = "inner" => ENABLED InnerCheck
    /\ capPc = "listen" => ENABLED ListenTimeout
    /\ (capPc = "listen" /\ nextId <= MaxUtter) =>
          ENABLED (\E n \in UtterLens : ListenUtterance(n))
    /\ capPc = "resample" => ENABLED (\E np_ok \in BOOLEAN : ResampleStep(np_ok))
    /\ capPc = "detach" => ENABLED DetachDispatch

\* C5 witness: every utterance of the run has a worker in flight at once, the
\* first still in its recognition call, and the capture thread listens again
C5_Witness ==
    /\ InFlight = Ids
    /\ worker[1].st = "recognize"
    /\ capPc = "listen"

\* C6: a step in which a worker fails ends that worker for good and leaves
\* the capture thread's position, its handle and its failure count unchanged.
C6_WorkerFailureContained ==
    [][\A id \in Ids :
          /\ (worker[id].st # "failed" /\ worker'[id].st = "failed") =>
                /\ worker[id].st \in {"recognize", "callback"}
                /\ UNCHANGED <<capPc, mic, consecutive_errors>>
          /\ worker[id].st = "failed" => worker'[id] = worker[id]]_vars

\* C6 witness: a worker has failed with the backend unreachable while the
\* capture thread listens on its open handle
C6_Witness ==
    /\ \E id \in Ids : worker[id].st = "failed"
    /\ ~online
    /\ capPc = "listen"
    /\ mic # NoMic

\* C7: whenever the capture thread is back at the outer loop after an OSError
\* of a read, the handle is closed and a pause of at least RE_INIT_DELAY_SEC
\* has been slept.
C7_ReadErrorPauses ==
    (capPc = "outer" /\ exc.origin = "read" /\ exc.type = "OSError") =>
        /\ mic = NoMic
        /\ pause >= RE_INIT_DELAY_SEC

\* C8: whenever the capture thread is back at the outer loop after a failure,
\* the recognizer is a newly created one without accumulated energy
\* statistics.
C8_RecoveryRecreatesRecognizer ==
    (capPc = "outer" /\ exc # NoExc) => recognizer = NewRecognizer

\* C9: the pause of a failure that follows another failure without a good
\* open in between is at least the pause of that earlier failure, and no
\* pause exceeds RE_INIT_DELAY_SEC + 25 = 30 seconds.
C9_BackoffMonotone ==
    /\ [](pause <= RE_INIT_DELAY_SEC + 25)
    /\ [][(consecutive_errors >= 1 /\ consecutive_errors' = consecutive_errors + 1)
             => pause' >= pause]_vars

\* C10: the failure count is zero as soon as an utterance has been captured,
\* and the first recovery pause after a captured utterance is the fixed
\* delay, with the count at one.
C10_ResetAfterCapture ==
    /\ capPc \in {"resample", "detach"} => consecutive_errors = 0
    /\ (capPc = "sleep" /\ capture_ok) =>
          /\ consecutive_errors = 1
          /\ pause = RE_INIT_DELAY_SEC

\* C10 witness: an utterance was captured and dispatched, then a read failed
\* and the capture thread sleeps the fixed delay
C10_Witness ==
    /\ capPc = "sleep"
    /\ capture_ok
    /\ exc.origin = "read"
    /\ dispatched[1] = 1
    /\ pause = RE_INIT_DELAY_SEC

\* C11: a device change observed by the capture thread at the head of its
\* listening loop (running, flag set) closes the handle and returns to the
\* outer loop directly: the failure counter and the pause are left alone and
\* no handler runs.  Every open attempt then reads the index that is
\* requested at that moment, and the handle it yields is on that index.
C11_DeviceChangeReopens ==
    [][/\ (capPc = "inner" /\ running /\ device_changed /\ capPc' # capPc)
           => /\ capPc' = "outer"
              /\ mic' = NoMic
              /\ consecutive_errors' = consecutive_errors
              /\ pause' = pause
              /\ pause = 0
              /\ exc' = NoExc
       /\ (capPc = "outer" /\ capPc' = "probe") => dev' = input_device_index
       /\ (mic = NoMic /\ mic' # NoMic) => mic'.device_index = dev]_vars

\* C11 witness: the capture thread has just left its listening loop for a
\* device change to index 1, with no failure recorded, counted or slept for
C11_Witness ==
    /\ capPc = "outer"
    /\ running
    /\ device_changed
    /\ input_device_index = 1
    /\ probed # <<>>
    /\ mic = NoMic
    /\ exc = NoExc
    /\ consecutive_errors = 0
    /\ pause = 0

\* C12: the two writes of set_input_device change nothing of the capture
\* thread's state, the handle included.  A handle is closed without a
\* failure only at the head of the listening loop, and a handle closed while
\* a listen call is in progress is closed by a read failure.
C12_RequestOnlyRecorded ==
    [][/\ (uiPc' # uiPc) => UNCHANGED capVars
       /\ (mic # NoMic /\ mic' = NoMic /\ exc' = NoExc) => capPc = "inner"
       /\ (capPc = "listen" /\ mic' = NoMic)
           => (exc' # NoExc /\ exc'.origin = "read")]_vars

\* C12 witness: a request for another device is fully recorded while a
\* listen call is in progress on the handle of the previous device
C12_Witness ==
    /\ capPc = "listen"
    /\ uiPc = "idle"
    /\ device_changed
    /\ mic # NoMic
    /\ mic.device_index # input_device_index

\* C13: a freshly opened handle has not been calibrated when calibration is
\* about to run, and from the first loop test until the handle is closed,
\* through every listen on it, exactly one calibration has been completed.
C13_CalibratedOncePerOpen ==
    /\ capPc = "calibrate" => (calibrated = 0 /\ mic # NoMic)
    /\ capPc \in {"inner", "listen", "resample", "detach"}
        => (calibrated = 1 /\ mic # NoMic)

\* C13 witness: after a dispatched utterance and an idle timeout the thread
\* is about to listen again on a handle calibrated once
C13_Witness ==
    /\ capPc = "inner"
    /\ idle_timeout
    /\ calibrated = 1
    /\ dispatched[1] = 1
    /\ nextId = 2

\* C14: a listen call that ends in an idle timeout returns to the head of
\* the listening loop with the handle, the failure counter, the pause, the
\* calibration count, the workers and the utterance numbering unchanged.
C14_TimeoutContinues ==
    [][(capPc = "listen" /\ idle_timeout')
           => /\ capPc' = "inner"
              /\ UNCHANGED <<mic, consecutive_errors, pause, calibrated, exc,
                             worker, dispatched, nextId, audio, capture_ok>>]_vars

\* C14 witness: an idle timeout has just returned on an open handle
C14_Witness ==
    /\ capPc = "inner"
    /\ idle_timeout
    /\ mic # NoMic
    /\ running
    /\ consecutive_errors = 0

\* C15: the capture thread has ended only when the running flag is clear;
\* it ends only from the outer loop test; a failure leads to a handler's
\* sleep or straight back to the outer loop test, and the sleep returns to
\* the outer loop test, which opens the device again while running.
C15_LoopSurvivesFailures ==
    /\ [](capPc = "done" => ~running)
    /\ [][/\ (capPc' = "done" /\ capPc # "done") => (capPc = "outer" /\ ~running)
          /\ (exc' # exc /\ exc' # NoExc) => capPc' \in {"sleep", "outer"}
          /\ (capPc = "sleep" /\ capPc' # capPc) => capPc' = "outer"
          /\ (capPc = "outer" /\ running /\ capPc' # capPc) => capPc' = "probe"]_vars

\* C15 witness: after five consecutive failures the running session is
\* opening the device again
C15_Witness ==
    /\ capPc = "probe"
    /\ running
    /\ consecutive_errors = 5

\* C16: the capture thread enters a listen call only in a step that reads
\* the running flag as set, so once stop() has cleared the flag it finishes
\* at most the listen call it is in and starts no other; and whenever the
\* flag is clear, the capture thread and the meter thread both come to
\* their end (unless start() sets the flag again first).
C16_StopTerminates ==
    /\ [][(capPc' = "listen" /\ capPc # "listen") => running]_vars
    /\ (~running) ~> (running \/ (/\ capPc \in {"idle", "done"}
                                   /\ vuPc \in {"idle", "done"}))

\* C16 witness: after stop() both threads have ended, the capture thread
\* after it dispatched an utterance, the meter thread after it found a rate
C16_Witness ==
    /\ ~running
    /\ capPc = "done"
    /\ vuPc = "done"
    /\ dispatched[1] = 1
    /\ vu_rate # 0

\* C17: the step of stop() leaves every worker, the delivery counts and the
\* online flag as they are, and a worker that is in its recognition call can
\* return a text and invoke the callback whether or not the engine runs.
C17_StopLeavesWorkers ==
    /\ [](\A id \in Ids :
            worker[id].st = "recognize" => ENABLED RecognizeText(id, TRUE))
    /\ [][(running /\ ~running')
              => UNCHANGED <<worker, delivered, dispatched, online>>]_vars

\* C17 witness: the engine is stopped, its capture thread has ended, and a
\* worker is still in its recognition call
C17_Witness ==
    /\ ~running
    /\ capPc = "done"
    /\ worker[1].st = "recognize"
    /\ delivered[1] = 0

\* C18: when the worker of an utterance has been started, every earlier
\* utterance has already been given to its worker or dropped; and two
\* workers that are both in their recognition call can each return first,
\* the later one as well as the earlier one.
C18_SpawnOrderOnly ==
    \A i \in Ids : \A j \in Ids :
        i < j =>
            /\ dispatched[j] >= 1 => (nextId > i /\ audio.id # i)
            /\ (worker[i].st = "recognize" /\ worker[j].st = "recognize")
                => (/\ ENABLED RecognizeText(j, TRUE)
                    /\ ENABLED RecognizeText(i, TRUE))

\* C18 witness: the callback of utterance 2 was invoked and has returned
\* while the worker of utterance 1 is still in its recognition call
C18_Witness ==
    /\ delivered[2] = 1
    /\ worker[2].st = "done"
    /\ worker[1].st = "recognize"
    /\ delivered[1] = 0

\* C19: the callback is invoked at most once per utterance; the count of an
\* utterance changes only in the step in which its recognition call returns
\* a text, and then to one; a recognition call that ends in an except
\* clause or returns no text leaves the count at zero.
C19_CallbackAtMostOnce ==
    /\ [](\A id \in Ids : delivered[id] <= dispatched[id] /\ delivered[id] <= 1)
    /\ [][\A id \in Ids :
            /\ delivered'[id] # delivered[id]
                => (worker[id].st = "recognize" /\ worker'[id].st = "callback")
            /\ (worker[id].st = "recognize" /\ worker'[id].st = "callback")
                => delivered'[id] = 1
            /\ (worker[id].st = "recognize" /\ worker'[id].st \in {"failed", "done"})
                => delivered'[id] = 0]_vars

\* C19 witness: utterance 1 was recognized and its callback invoked once;
\* the recognition of utterance 2 ended in an except clause with no call
C19_Witness ==
    /\ worker[1].st = "done"
    /\ delivered[1] = 1
    /\ worker[2].st = "failed"
    /\ delivered[2] = 0

C21_GainSnapshot ==
    (procPc \in {"level", "store"} /\ tested # 10) => multiplier = tested

\* C22: when the worker and the meter callback have each completed one level
\* update from level 0, the level is what the two updates give in one of
\* the two serial orders.
C22_LevelUpdatesSerial ==
    (w_count = 1 /\ m_count = 1 /\ procPc # "store" /\ cbPc = "idle")
        => current_rms \in {MeterLevel(WorkerLevel(0, w_rms), m_rms),
                            WorkerLevel(MeterLevel(0, m_rms), w_rms)}

\* C23: the value get_vu_level returns is at least 0 and at most 1 (1000
\* thousandths), whatever updates were stored under whatever gain.
C23_VuLevelInRange ==
    /\ GetVuLevel >= 0
    /\ GetVuLevel <= 1000

\* C23 witness: a meter chunk multiplied by gain 10 has driven the stored
\* level above full scale, and get_vu_level returns 1
C23_Witness ==
    /\ current_rms > 1000
    /\ m_count = 1
    /\ GetVuLevel = 1000

\* C24: beside a capture thread on a healthy device, no failure is ever
\* counted, recorded or slept for by the capture thread, whatever the meter
\* thread does; a step of the meter thread changes nothing of the capture
\* thread, the workers or the configuration; and whatever the meter's state,
\* a listen call can return an utterance and an utterance in hand can be
\* dispatched.
C24_MeterIsolated ==
    /\ [](consecutive_errors = 0 /\ exc = NoExc /\ pause = 0)
    /\ []((capPc = "listen" /\ nextId <= MaxUtter)
            => \E n \in UtterLens : ENABLED ListenUtterance(n))
    /\ [](capPc = "detach" => ENABLED DetachDispatch)
    /\ [][(vuVars' # vuVars /\ running' = running)
              => UNCHANGED <<cfgVars, capVars, recognizer, online, worker,
                             dispatched, delivered>>]_vars

\* C24 witness: the meter found no working rate and is in its recovery
\* pause while the capture thread holds its handle and has dispatched two
\* utterances
C24_Witness ==
    /\ vuPc = "sleep"
    /\ vu_rate = 0
    /\ mic # NoMic
    /\ capPc = "inner"
    /\ dispatched[1] = 1
    /\ dispatched[2] = 1

\* C25: the meter thread sleeps exactly when it is in a handler, and then
\* for RE_INIT_DELAY_SEC; a stream that is closed by a failure leads to that
\* sleep; the sleep returns to the outer loop test, which probes again while
\* the engine runs; and the thread ends only when sounddevice cannot be
\* imported or the running flag is clear.
C25_MeterFixedDelay ==
    /\ [](vu_pause = IF vuPc = "sleep" THEN RE_INIT_DELAY_SEC ELSE 0)
    /\ [][/\ (vuPc = "sleep" /\ vuPc' # vuPc) => vuPc' = "outer"
          /\ (vuPc = "outer" /\ running /\ vuPc' # vuPc) => vuPc' = "probe"
          /\ (vuPc \in {"probe", "open", "stream"} /\ vuPc' # vuPc)
                => vuPc' \in {"open", "stream", "sleep", "outer"}
          /\ (vuPc' = "done" /\ vuPc # "done")
                => (vuPc = "import" \/ (vuPc = "outer" /\ ~running))]_vars

\* C25 witness: the stream failed after it had been opened at a working
\* rate, and the running engine's meter thread sleeps the fixed delay
C25_Witness ==
    /\ vuPc = "sleep"
    /\ vu_pause = RE_INIT_DELAY_SEC
    /\ vu_rate # 0
    /\ vu_stream = NoStream
    /\ running

\* ---- the signal functions: resampling, gain and normalization -------------

\* floor(N * r' / r) for the call recorded in fn and arg
ExpectedLen == (Len(arg.samples) * fn.param) \div arg.sample_rate

\* C26: resampling a buffer to its own sample rate returns the input buffer
\* unchanged, the same samples and the same rate, for every buffer.
C26_ResampleSameRate ==
    (fn.name = "resample" /\ fn.param = arg.sample_rate) => out = arg

C26_Witness ==
    /\ fn.name = "resample"
    /\ fn.param = arg.sample_rate
    /\ arg.sample_rate = 44100
    /\ arg.samples = <<1000, -32768, 32767>>
    /\ out = arg

\* C27: for every buffer of N samples at rate r and every supported target
\* rate r' other than r, the resampled buffer has floor(N * r' / r) samples,
\* give or take one, and is tagged with rate r'.
C27_ResampleLength ==
    (fn.name = "resample" /\ fn.param # arg.sample_rate)
        => /\ out.sample_rate = fn.param
           /\ Abs(Len(out.samples) - ExpectedLen) <= 1

\* C28: for every 16-bit buffer, full-scale samples included, and every gain
\* setting, each sample of the output of manual gain followed by
\* auto-normalize lies in [-32768, 32767] and never has the opposite sign of
\* the input sample.
C28_GainNormalizeInRange ==
    fn.name = "process"
        => /\ Len(out.samples) = Len(arg.samples)
           /\ \A k \in 1..Len(arg.samples) :
                /\ out.samples[k] >= -32768
                /\ out.samples[k] <= 32767
                /\ arg.samples[k] >= 0 => out.samples[k] >= 0
                /\ arg.samples[k] <= 0 => out.samples[k] <= 0

C28_Witness ==
    /\ fn.name = "process"
    /\ fn.param = 100
    /\ arg.samples = <<32767, -32768, 1000>>
    /\ out.samples = <<32767, -32768, 10000>>

\* C29: auto-normalize returns a buffer whose rms is below the minimum active
\* rms threshold (0.001 of full scale) unchanged, sample for sample.
C29_SilenceUntouched ==
    (fn.name = "normalize" /\ Silent(arg.samples)) => out = arg

C29_Witness ==
    /\ fn.name = "normalize"
    /\ arg.samples = <<-20, 0, -20>>
    /\ Silent(arg.samples)
    /\ out = arg

\* C30: auto-normalize returns a buffer whose loudness is at or above the
\* target (-20 dBFS) unchanged, so that no sample is increased, and
\* auto-normalize applied to that output leaves it unchanged.
C30_LoudUntouched ==
    (fn.name = "normalize" /\ Loud(arg.samples))
        => /\ out = arg
           /\ \A k \in 1..Len(arg.samples) : Abs(out.samples[k]) <= Abs(arg.samples[k])
           /\ Normalize(out) = out
           /\ ENABLED NormalizeCall

C30_Witness ==
    /\ fn.name = "normalize"
    /\ arg.samples = <<32767, 1000, -32768>>
    /\ Loud(arg.samples)
    /\ out = arg

\* ---- construction defaults and settings ------------------------------------

\* C31: an engine constructed with default arguments has gain 1.5 and a
\* recognizer with pause threshold 1.0 s; in every later state, also after a
\* recovery recreated the recognizer, its pause threshold, phrase threshold
\* and non-speaking duration are 1.0 s, 0.1 s and 0.5 s as at construction.
C31_SegmenterSettingsFixed ==
    /\ capPc = "idle" => (gain = 15 /\ recognizer = NewRecognizer)
    /\ recognizer.pause_threshold = 10
    /\ recognizer.phrase_threshold = 1
    /\ recognizer.non_speaking_duration = 5

\* C31 witness: the recognizer had adapted to a calibration, a read failed
\* and the recovery has recreated the recognizer
C31_Witness ==
    /\ capPc = "sleep"
    /\ exc.type = "OSError"
    /\ exc.origin = "read"
    /\ calibrated = 1
    /\ recognizer.adapted = FALSE
    /\ recognizer.pause_threshold = 10

\* C32: in every reachable state the manual gain is non-negative, for any
\* constructor argument and any sequence of set_gain calls, and every change
\* of the gain leaves it within [0, 10].
C32_GainNonNegative ==
    /\ [](gain >= 0)
    /\ [][gain' # gain => (gain' >= 0 /\ gain' <= 100)]_vars

\* ---- failure counting and backoff ------------------------------------------

\* C33: within a run of the capture thread the failure count returns to zero
\* only by the step in which a listen call returns an utterance; a good open
\* or calibration alone leaves it as it is.
C33_ResetOnlyOnCapture ==
    [][(capPc \notin {"idle", "done"} /\ consecutive_errors # 0
            /\ consecutive_errors' = 0)
          => (capPc = "listen" /\ capPc' = "resample")]_vars

\* C34: whenever the capture thread sleeps after a failure, with n failures
\* counted, the pause is RE_INIT_DELAY_SEC plus min(2 * n, 25) seconds when
\* n > 3, and RE_INIT_DELAY_SEC alone when n <= 3, whatever failed.
C34_EscalatedDelay ==
    capPc = "sleep" =>
        pause = RE_INIT_DELAY_SEC
                  + (IF consecutive_errors > 3
                       THEN Min(2 * consecutive_errors, 25) ELSE 0)

\* ---- device changes --------------------------------------------------------

\* C35: no device-change request is lost: whenever the capture thread is in a
\* listen call while no request is pending (the flag is clear and no
\* set_input_device call is in progress), its handle was opened with the
\* requested index.
C35_RequestHonoured ==
    (running /\ capPc = "listen" /\ uiPc = "idle" /\ ~device_changed)
        => mic.device_index = input_device_index

\* C36: the meter thread reopens its stream exactly once for each
\* device-change request.  None is missed: whenever its stream is open while
\* no request is pending, the stream is on the requested device.  None is
\* served twice: the meter thread closes its stream for a device change only
\* when the stream is not yet on the requested device.
C36_MeterReopensOnce ==
    /\ []((running /\ vuPc = "stream" /\ uiPc = "idle" /\ ~device_changed)
            => vu_stream.device = input_device_index)
    /\ [][(vuPc = "stream" /\ running /\ vuPc' = "outer")
            => vu_stream.device # input_device_index]_vars

\* ---- start and stop --------------------------------------------------------

\* the capture loops and the meter loops that are executing: the thread of
\* the last start() unless it has ended, and the thread of the start()
\* before it once it has passed its loop test again
CaptureLoops ==
    (IF capPc \in {"idle", "done"} THEN 0 ELSE 1)
        + (IF prev_listen_thread = "looping" THEN 1 ELSE 0)

MeterLoops ==
    (IF vuPc \in {"idle", "done"} THEN 0 ELSE 1)
        + (IF prev_vu_thread = "looping" THEN 1 ELSE 0)

\* C37: for every interleaving of start() and stop() calls at most one
\* capture loop and at most one meter loop of the engine are executing, also
\* when start() is called after a stop() whose join timed out.
C37_OneLoopEach ==
    /\ CaptureLoops <= 1
    /\ MeterLoops <= 1

\* ---- order of the pipeline stages -------------------------------------------

\* C38: the detach copy is the first operation applied to a buffer the
\* segmenter returned, and resampling is left to the dispatch worker: when
\* the capture thread is about to copy the buffer, it is still the buffer
\* listen returned, at the rate of the open handle.
C38_DetachFirst ==
    capPc = "detach" => audio.sample_rate = mic.sample_rate

\* ---- sanctions ---------------------------------------------------------------

\* C39: at most one sanction is in progress at any time, also when the
\* transcription callback calls execute_sanction from several dispatch
\* worker threads, and the level counts the sanctions that were started.
C39_OneSanction ==
    /\ overlays <= 1
    /\ overlays > 0 => is_penalty_active

====
